---- MODULE Spec2Model ----
(***************************************************************************)
(* Model of IteratorBasedFor.hpp: the translation-time type traits         *)
(* (swap detection, pre-increment / indirection detection, is_iterator),   *)
(* the iterator_range class, make_iterator_range and the templated comma   *)
(* operator, together with the range-based for statement of the README.    *)
(*                                                                         *)
(* A type is described by the facts the traits probe: what kind of type it *)
(* is, what the <type_traits> queries answer for it, which swap functions  *)
(* argument-dependent lookup finds for it, and what its operator++ and     *)
(* operator* are declared to return.  The traits are computed from such a  *)
(* description the way the templates compute them.                         *)
(***************************************************************************)
EXTENDS Integers, Sequences, FiniteSets, TLC

VARIABLES T, U, swDone, sw, itDone, it,
          I, a, b, ca, cb, stmt, res, r2, eqDone, eq, forpc, cur, visited

vars == <<T, U, swDone, sw, itDone, it,
          I, a, b, ca, cb, stmt, res, r2, eqDone, eq, forpc, cur, visited>>

traitVars == <<T, U, swDone, sw, itDone, it>>
rangeVars == <<I, a, b, ca, cb, stmt, res, r2, eqDone, eq, forpc, cur, visited>>

(***************************************************************************)
(* Type descriptions                                                       *)
(***************************************************************************)

\* Reference qualifier of a type: T, T& or T&&.
Refs == {"none", "lref", "rref"}

\* What a class declares operator++() to return: nothing declared, a
\* reference to the class itself, a copy, or a reference to another type.
PreIncDecls == {"none", "self_ref", "value", "other_ref"}

\* What a class declares operator*() to return.
DerefDecls == {"none", "ref", "value", "void"}

\* Which swap argument-dependent lookup finds in the namespaces of a type:
\* none, a generic template<class X> swap(X&, X&) (std::swap for types whose
\* associated namespaces include std), or a function specific to the type (a
\* non-template, or a template more specialised than swap(X&, X&)).
AdlSwaps == {"none", "generic", "custom"}

\* Return type of a type-specific swap.
SwapRets == {"void", "tag"}

\* User-defined class types: every combination of the probed facts.
ClassTypes ==
    {c \in [name : {"class"}, kind : {"class"},
            copyC : BOOLEAN, copyA : BOOLEAN, destr : BOOLEAN,
            moveA : BOOLEAN, moveC : BOOLEAN,
            adlSwap : AdlSwaps, swapRet : SwapRets,
            preinc : PreIncDecls, deref : DerefDecls] :
        c.adlSwap # "custom" => c.swapRet = "void"}

\* Position types of std::vector<int>: class types in (or associated with)
\* namespace std, so an unqualified swap call on them finds std::swap, as
\* main.cpp relies on.  operator++ returns *this by reference, operator*
\* returns a reference to the element.
VectorPositionNames ==
    {"vector<int>::iterator", "vector<int>::const_iterator",
     "vector<int>::reverse_iterator", "vector<int>::const_reverse_iterator"}

VectorPosition(n) ==
    [name |-> n, kind |-> "class",
     copyC |-> TRUE, copyA |-> TRUE, destr |-> TRUE,
     moveA |-> TRUE, moveC |-> TRUE,
     adlSwap |-> "generic", swapRet |-> "void",
     preinc |-> "self_ref", deref |-> "ref"]

VectorPositionTypes == {VectorPosition(n) : n \in VectorPositionNames}

VecIter == VectorPosition("vector<int>::iterator")

\* Built-in numeric types; const-qualified ones cannot be assigned to.
Arith(n, isConst) ==
    [name |-> n, kind |-> "arith",
     copyC |-> TRUE, copyA |-> ~isConst, destr |-> TRUE,
     moveA |-> ~isConst, moveC |-> TRUE,
     adlSwap |-> "none", swapRet |-> "void",
     preinc |-> "none", deref |-> "none"]

IntT == Arith("int", FALSE)

NumericTypes ==
    {Arith("int", FALSE), Arith("double", FALSE), Arith("const int", TRUE)}

\* Raw pointers.  The associated namespaces of a pointer are those of its
\* pointee.
Pointer(n, adl) ==
    [name |-> n, kind |-> "ptr",
     copyC |-> TRUE, copyA |-> TRUE, destr |-> TRUE,
     moveA |-> TRUE, moveC |-> TRUE,
     adlSwap |-> adl, swapRet |-> "void",
     preinc |-> "none", deref |-> "none"]

IntPtr == Pointer("int*", "none")

VecIterPtr == Pointer("vector<int>::iterator*", "generic")

PointerTypes == {IntPtr, VecIterPtr}

\* A user-defined iterator outside namespace std, with no swap of its own.
UserIter ==
    [name |-> "class", kind |-> "class",
     copyC |-> TRUE, copyA |-> TRUE, destr |-> TRUE,
     moveA |-> TRUE, moveC |-> TRUE,
     adlSwap |-> "none", swapRet |-> "void",
     preinc |-> "self_ref", deref |-> "ref"]

\* class A { }; int swap(A, A);  of the tests.
ClassA ==
    [name |-> "class", kind |-> "class",
     copyC |-> TRUE, copyA |-> TRUE, destr |-> TRUE,
     moveA |-> TRUE, moveC |-> TRUE,
     adlSwap |-> "custom", swapRet |-> "void",
     preinc |-> "none", deref |-> "none"]

BaseTypes == ClassTypes \cup VectorPositionTypes \cup NumericTypes \cup PointerTypes

Ty(base, r) == [base |-> base, ref |-> r]

Types == [base : BaseTypes, ref : Refs]

\* The second type of a two-type query: the same type, the same type under
\* another reference qualifier, or an unrelated type.
Partners(t) ==
    {t, Ty(t.base, "lref"), Ty(IF t.base = IntT THEN ClassA ELSE IntT, "none")}

(***************************************************************************)
(* <type_traits> queries used by the header                                *)
(***************************************************************************)

is_reference(t) == t.ref # "none"

remove_reference(t) == Ty(t.base, "none")

\* is_constructible<T, const T&>: an lvalue reference binds, an rvalue
\* reference does not bind to an lvalue.
is_copy_constructible(t) ==
    CASE t.ref = "none" -> t.base.copyC
      [] t.ref = "lref" -> TRUE
      [] t.ref = "rref" -> FALSE

\* is_assignable<T&, const T&>; T& collapses to an lvalue of the base type.
is_copy_assignable(t) == t.base.copyA

is_destructible(t) == IF t.ref = "none" THEN t.base.destr ELSE TRUE

\* is_assignable<T&, T&&>: for T = X& the source is an lvalue X.
is_move_assignable(t) ==
    IF t.ref = "lref" THEN t.base.copyA ELSE t.base.moveA

\* is_constructible<T, T&&>: a reference binds to itself.
is_move_constructible(t) ==
    IF t.ref = "none" THEN t.base.moveC ELSE TRUE

(***************************************************************************)
(* Overload resolution of the unqualified call                             *)
(*     swap(std::declval<V&>(), std::declval<W&>())                        *)
(* made inside namespace IteratorBasedForImpl (lines 18 and 45).           *)
(***************************************************************************)

\* Ranks of the tie-breakers between candidates whose arguments all bind by
\* identity: a type-specific function beats a generic template.
RankOf(fn) == IF fn = "custom" THEN 2 ELSE 1

\* template<typename T> tag swap(T&, T&): found by ordinary lookup.  V& and
\* W& collapse to lvalues of the base types; T must deduce the same from both.
StandIn(v, w) ==
    IF v.base = w.base THEN {[fn |-> "standin", ret |-> "tag"]} ELSE {}

\* The functions argument-dependent lookup adds for the two argument types.
AdlCandidates(v, w) ==
    IF v.base # w.base THEN {}
    ELSE CASE v.base.adlSwap = "none"    -> {}
           [] v.base.adlSwap = "generic" -> {[fn |-> "generic", ret |-> "void"]}
           [] v.base.adlSwap = "custom"  -> {[fn |-> "custom", ret |-> v.base.swapRet]}

SwapCandidates(v, w) == StandIn(v, w) \cup AdlCandidates(v, w)

\* The best viable functions: more than one is an ambiguous call, none is no
\* matching function; both are substitution failures.
BestSwapUnranked(v, w) == SwapCandidates(v, w)

BestSwap(v, w) ==
    {c \in SwapCandidates(v, w) :
        \A d \in SwapCandidates(v, w) : RankOf(d.fn) <= RankOf(c.fn)}

SwapCallWellFormed(v, w) == Cardinality(BestSwap(v, w)) = 1

SwapCallType(v, w) == (CHOOSE c \in BestSwap(v, w) : TRUE).ret

(***************************************************************************)
(* The traits of namespace IteratorBasedForImpl                            *)
(***************************************************************************)

swap_call_matches_std_swap(t, u) ==
    SwapCallWellFormed(t, u) /\ SwapCallType(t, u) = "tag"

std_swap_call_is_valid(t, u) ==
    /\ swap_call_matches_std_swap(t, u)
    /\ is_move_assignable(t)
    /\ is_move_assignable(u)
    /\ is_move_constructible(t)
    /\ is_move_constructible(u)

swap_call_is_valid_copied_check(t, u) ==
    SwapCallWellFormed(t, u) /\ SwapCallType(t, u) = "tag"

swap_call_is_valid(t, u) == SwapCallWellFormed(t, u)

is_swappable_generic_only(t, u) ==
    swap_call_matches_std_swap(t, u) /\ std_swap_call_is_valid(t, u)

is_swappable_regrouped(t, u) ==
    swap_call_matches_std_swap(t, u)
        /\ (std_swap_call_is_valid(t, u) \/ swap_call_is_valid(t, u))

is_swappable(t, u) ==
    \/ swap_call_matches_std_swap(t, u) /\ std_swap_call_is_valid(t, u)
    \/ swap_call_is_valid(t, u)

\* Value category of std::declval<U>(): an lvalue only for U = X&.
DeclvalCategory(t) == IF t.ref = "lref" THEN "lvalue" ELSE "rvalue"

\* Type of ++e for an expression e of the given base type and category.  The
\* built-in operator needs a modifiable lvalue and yields an lvalue of the same
\* type; a member operator++ can be called on either category.
PreIncType(base, cat) ==
    CASE base.kind = "class" ->
            IF base.preinc = "none" THEN "ill_formed" ELSE base.preinc
      [] base.kind \in {"arith", "ptr"} ->
            IF cat = "lvalue" /\ base.copyA THEN "self_ref" ELSE "ill_formed"
            \* (an object that cannot be assigned to is const: not modifiable)

\* Type of *e.  The built-in operator applies to pointers of either category.
DerefType(base) ==
    CASE base.kind = "class" ->
            IF base.deref = "none" THEN "ill_formed" ELSE base.deref
      [] base.kind = "ptr"   -> "ref"
      [] base.kind = "arith" -> "ill_formed"

has_iterator_pre_increment_well_formed_only(t) ==
    PreIncType(t.base, DeclvalCategory(t)) # "ill_formed"

has_iterator_pre_increment_any_category(t) ==
    PreIncType(t.base, "lvalue") = "self_ref"

\* is_same<decltype(++declval<U>()), U&>: U& collapses to X& for every U.
has_iterator_pre_increment(t) ==
    PreIncType(t.base, DeclvalCategory(t)) = "self_ref"

has_iterator_indirection_well_formed_only(t) ==
    DerefType(t.base) # "ill_formed"

has_iterator_indirection(t) == DerefType(t.base) = "ref"

is_iterator_of_stripped(t) ==
    /\ is_copy_constructible(t)
    /\ is_copy_assignable(t)
    /\ is_destructible(t)
    /\ is_swappable(t, t)
    /\ has_iterator_pre_increment(t)
    /\ has_iterator_indirection(t)

is_iterator(t) ==
    /\ ~is_reference(t)
    /\ is_copy_constructible(t)
    /\ is_copy_assignable(t)
    /\ is_destructible(t)
    /\ is_swappable(t, t)
    /\ has_iterator_pre_increment(t)
    /\ has_iterator_indirection(t)

(***************************************************************************)
(* iterator_range, make_iterator_range and operator,                       *)
(***************************************************************************)

\* Length of the container the positions point into.
VLen == 10

\* std::vector<int> v(VLen); std::iota(v.begin(), v.end(), 1);
v == [i \in 1..VLen |-> i]

\* Positions begin .. end of v (VLen is the past-the-end position); also the
\* values used for operands of the other types.
Pos == 0..VLen

Categories == {"lvalue", "rvalue"}

\* Types of the operands of the expressions and statements modelled.
OperandTypes == {VecIter, UserIter, IntT, IntPtr}

NoType == Ty(IntT, "none")

\* Result of translating and evaluating an expression: not evaluated, a range
\* object, a plain value, or ill-formed (rejected at translation time).
NoResult   == [kind |-> "none", Iter |-> NoType, begin |-> 0, end |-> 0, val |-> 0]
IllFormed  == [kind |-> "ill_formed", Iter |-> NoType, begin |-> 0, end |-> 0, val |-> 0]
Value(x)   == [kind |-> "value", Iter |-> NoType, begin |-> 0, end |-> 0, val |-> x]
Range(x, p, q) == [kind |-> "range", Iter |-> x, begin |-> p, end |-> q, val |-> 0]

\* Binding of an argument to a parameter declared Iterator&&, where Iterator is
\* the class's template argument (not deduced): X&& binds rvalues only; for
\* Iterator = X& it collapses to X&, which binds lvalues only.
Binds(x, cat) == IF x.ref = "lref" THEN cat = "lvalue" ELSE cat = "rvalue"

\* iterator_range<x>(p, q): m_begin(_begin), m_end(_end) copy the (named, hence
\* lvalue) parameters, or bind the reference members when x is a reference.
iterator_range_ctor(x, p, cp, q, cq) ==
    IF Binds(x, cp) /\ Binds(x, cq) /\ (x.ref = "none" => x.base.copyC)
    THEN Range(x, p, q)
    ELSE IllFormed

\* iterator_range::begin() and end().
RangeBegin(r) == r.begin
RangeEnd(r)   == r.end

RangeEqualsBeginOnly(x, y) == x.begin = y.begin

\* iterator_range::operator==
RangeEquals(x, y) == x.begin = y.begin /\ x.end = y.end

\* Deduction of a function template parameter declared Iterator&& (a forwarding
\* reference): X& for an lvalue argument, X for an rvalue.
DeduceForwarding(base, cat) == Ty(base, IF cat = "lvalue" THEN "lref" ELSE "none")

\* make_iterator_range(p, q).  Both arguments must deduce the same Iterator.
\* The body passes the named parameters, which are lvalues, to the constructor
\* of iterator_range<remove_reference<Iterator>>, and the result must be of the
\* declared return type iterator_range<Iterator>.
make_iterator_range(base, p, cp, q, cq) ==
    IF DeduceForwarding(base, cp) # DeduceForwarding(base, cq) THEN IllFormed
    ELSE LET Iterator == DeduceForwarding(base, cp)
             made == iterator_range_ctor(remove_reference(Iterator),
                                         p, "lvalue", q, "lvalue")
         IN  IF made.kind # "range" THEN IllFormed
             ELSE IF made.Iter # Iterator THEN IllFormed
             ELSE made

CommaEnabledForAll(Iterator) == TRUE

\* The enable_if of the comma operator template.
CommaEnabled(Iterator) == is_iterator(remove_reference(Iterator))

\* Whether the overloaded operator, is the function called for (p, q):
\* operator overloads are considered for class operands only, both operands
\* must deduce the same Iterator, and the enable_if must hold.
CommaOverloadSelected(base, cp, cq) ==
    /\ base.kind = "class"
    /\ DeduceForwarding(base, cp) = DeduceForwarding(base, cq)
    /\ CommaEnabled(DeduceForwarding(base, cp))

\* The expression (p, q).  The overload passes its named parameters (lvalues)
\* to make_iterator_range and returns iterator_range<Iterator>; otherwise the
\* built-in comma operator yields the right operand.
comma(base, p, cp, q, cq) ==
    IF CommaOverloadSelected(base, cp, cq)
    THEN LET Iterator == DeduceForwarding(base, cp)
             made == make_iterator_range(base, p, "lvalue", q, "lvalue")
         IN  IF made.kind # "range" THEN IllFormed
             ELSE IF made.Iter # Iterator THEN IllFormed
             ELSE made
    ELSE Value(q)

\* Whether for (x : r) can be translated for a range r over type x: the loop
\* variable __begin is an lvalue of the type begin() returns, by value, and is
\* incremented and dereferenced.
ForBodyWellFormed(x) ==
    /\ PreIncType(x.base, "lvalue") # "ill_formed"
    /\ DerefType(x.base) \notin {"ill_formed", "void"}

(***************************************************************************)
(* Translation of the traits for a pair of types                           *)
(***************************************************************************)

NoSw == [matches |-> FALSE, std_valid |-> FALSE, valid |-> FALSE, swappable |-> FALSE]
NoIt == [swappable |-> FALSE, pre_increment |-> FALSE, indirection |-> FALSE,
         is_iterator |-> FALSE]

RangeIdle ==
    /\ I = IntT /\ a = 0 /\ b = 0 /\ ca = "rvalue" /\ cb = "rvalue"
    /\ stmt = "none" /\ res = NoResult /\ r2 = NoResult
    /\ eqDone = FALSE /\ eq = FALSE
    /\ forpc = "idle" /\ cur = 0 /\ visited = <<>>

TraitIdle ==
    /\ T = NoType /\ U = NoType
    /\ swDone = FALSE /\ sw = NoSw /\ itDone = FALSE /\ it = NoIt

Init ==
    /\ T \in Types
    /\ U \in Partners(T)
    /\ swDone = FALSE /\ sw = NoSw
    /\ itDone = FALSE /\ it = NoIt
    /\ RangeIdle

\* Instantiation of the swap traits for <T, U>; each records its value member.
InstantiateSwapTraits ==
    /\ ~swDone
    /\ swDone' = TRUE
    /\ sw' = [matches   |-> swap_call_matches_std_swap(T, U),
              std_valid |-> std_swap_call_is_valid(T, U),
              valid     |-> swap_call_is_valid(T, U),
              swappable |-> is_swappable(T, U)]
    /\ UNCHANGED <<T, U, itDone, it, rangeVars>>

\* Instantiation of is_iterator<T> and of the traits it is built from.
InstantiateIteratorTraits ==
    /\ ~itDone
    /\ itDone' = TRUE
    /\ it' = [swappable     |-> is_swappable(T, T),
              pre_increment |-> has_iterator_pre_increment(T),
              indirection   |-> has_iterator_indirection(T),
              is_iterator   |-> is_iterator(T)]
    /\ UNCHANGED <<T, U, swDone, sw, rangeVars>>

Next == InstantiateSwapTraits \/ InstantiateIteratorTraits

Spec == Init /\ [][Next]_vars

(***************************************************************************)
(* Expressions and statements over two operands a, b of type I             *)
(***************************************************************************)

RangeInit ==
    /\ TraitIdle
    /\ I \in OperandTypes
    /\ a \in Pos /\ b \in Pos
    /\ ca \in Categories /\ cb \in Categories
    /\ stmt = "none" /\ res = NoResult /\ r2 = NoResult
    /\ eqDone = FALSE /\ eq = FALSE
    /\ forpc = "idle" /\ cur = 0 /\ visited = <<>>

\* iterator_range<X> r(a, b) with X = I or X = I&.
Construct ==
    /\ stmt = "none"
    /\ \E x \in {Ty(I, "none"), Ty(I, "lref")} :
          res' = iterator_range_ctor(x, a, ca, b, cb)
    /\ stmt' = "ctor"
    /\ UNCHANGED <<traitVars, I, a, b, ca, cb, r2, eqDone, eq, forpc, cur, visited>>

\* A second range of the same type, from any two endpoints.
ConstructSecond ==
    /\ stmt = "ctor" /\ res.kind = "range"
    /\ r2.kind = "none" /\ forpc = "idle"
    /\ \E p \in Pos, q \in Pos :
          r2' = iterator_range_ctor(res.Iter, p, ca, q, cb)
    /\ UNCHANGED <<traitVars, I, a, b, ca, cb, stmt, res, eqDone, eq, forpc, cur, visited>>

\* res == r2
Compare ==
    /\ stmt = "ctor" /\ res.kind = "range" /\ r2.kind = "range"
    /\ ~eqDone
    /\ eqDone' = TRUE
    /\ eq' = RangeEquals(res, r2)
    /\ UNCHANGED <<traitVars, I, a, b, ca, cb, stmt, res, r2, forpc, cur, visited>>

\* make_iterator_range(a, b)
MakeIteratorRange ==
    /\ stmt = "none"
    /\ res' = make_iterator_range(I, a, ca, b, cb)
    /\ stmt' = "make"
    /\ UNCHANGED <<traitVars, I, a, b, ca, cb, r2, eqDone, eq, forpc, cur, visited>>

\* (a, b)
Comma ==
    /\ stmt = "none"
    /\ res' = comma(I, a, ca, b, cb)
    /\ stmt' = "comma"
    /\ UNCHANGED <<traitVars, I, a, b, ca, cb, r2, eqDone, eq, forpc, cur, visited>>

\* for (int x : <range-init>) where the range-init is the expression already
\* evaluated into res: translation of the statement and initialisation of
\* __begin and __end.  An operand type has no begin()/end() of its own, so a
\* range-init that is a plain value is ill-formed.
ForBegin ==
    /\ stmt \in {"ctor", "comma"}
    /\ forpc = "idle" /\ r2.kind = "none"
    /\ IF res.kind = "range" /\ ForBodyWellFormed(res.Iter)
       THEN forpc' = "loop" /\ cur' = RangeBegin(res)
       ELSE forpc' = "ill_formed" /\ cur' = cur
    /\ UNCHANGED <<traitVars, I, a, b, ca, cb, stmt, res, r2, eqDone, eq, visited>>

\* One test of __begin != __end, then x = *__begin, the body, ++__begin.
\* Dereferencing the past-the-end position is undefined.
ForStep ==
    /\ forpc = "loop"
    /\ IF cur = RangeEnd(res)
       THEN forpc' = "done" /\ UNCHANGED <<cur, visited>>
       ELSE IF cur >= VLen
       THEN forpc' \in {"undefined", "done"} /\ UNCHANGED <<cur, visited>>
       ELSE /\ visited' = Append(visited, v[cur + 1])
            /\ cur' = cur + 1
            /\ forpc' = forpc
    /\ UNCHANGED <<traitVars, I, a, b, ca, cb, stmt, res, r2, eqDone, eq>>

RangeNext ==
    \/ Construct \/ ConstructSecond \/ Compare
    \/ MakeIteratorRange \/ Comma
    \/ ForBegin \/ ForStep

RangeSpec == RangeInit /\ [][RangeNext]_vars

(***************************************************************************)
(* Properties                                                              *)
(***************************************************************************)

\* C1: once is_iterator<T> is instantiated, its value is true exactly when T
\* as given is not a reference, is copy-constructible, copy-assignable and
\* destructible, is_swappable<T, T> holds, and T has the pre-increment and the
\* indirection the two detection traits look for; any one of the seven being
\* false makes it false.
C1_IsIteratorIsConjunction ==
    itDone =>
        (it.is_iterator <=>
            /\ ~is_reference(T)
            /\ is_copy_constructible(T)
            /\ is_copy_assignable(T)
            /\ is_destructible(T)
            /\ it.swappable
            /\ it.pre_increment
            /\ it.indirection)

\* A reference to a type that meets the six other requirements: only the
\* reference test fails, and is_iterator is false.
C1_Witness ==
    /\ itDone
    /\ is_reference(T)
    /\ is_copy_constructible(T) /\ is_copy_assignable(T) /\ is_destructible(T)
    /\ it.swappable /\ it.pre_increment /\ it.indirection
    /\ ~it.is_iterator

\* C2: is_swappable<T, U> is (std_swap_call_is_valid and
\* swap_call_matches_std_swap) or swap_call_is_valid, so a valid swap call
\* alone suffices; std_swap_call_is_valid is the match together with move
\* assignability and move constructibility of both T and U.
C2_IsSwappableGrouping ==
    swDone =>
        /\ sw.swappable <=> ((sw.std_valid /\ sw.matches) \/ sw.valid)
        /\ sw.valid => sw.swappable
        /\ sw.std_valid <=>
              /\ sw.matches
              /\ is_move_assignable(T) /\ is_move_assignable(U)
              /\ is_move_constructible(T) /\ is_move_constructible(U)

\* A type whose own swap is selected: the call does not match the stand-in,
\* and the type is swappable through the last disjunct alone.
C2_Witness ==
    /\ swDone
    /\ sw.valid /\ ~sw.matches /\ ~sw.std_valid
    /\ sw.swappable

\* C3: for the position types I of a vector, is_iterator<I> is true while
\* is_iterator<I&> and is_iterator<I&&> are false, and raw pointers (int*, I*)
\* are not iterators.
C3_VectorPositionsAreIterators ==
    itDone =>
        /\ T.base \in VectorPositionTypes => (it.is_iterator <=> T.ref = "none")
        /\ T.base \in PointerTypes => ~it.is_iterator

\* C4: for a built-in numeric type N, is_swappable<N, N> is true and
\* is_iterator<N> is false, N having neither the pre-increment nor the
\* indirection looked for.
C4_NumericTypes ==
    (T.base \in NumericTypes /\ T.ref = "none") =>
        /\ (swDone /\ U = T) => sw.swappable
        /\ itDone => /\ it.swappable
                     /\ ~it.pre_increment
                     /\ ~it.indirection
                     /\ ~it.is_iterator

C4_Witness ==
    /\ T = Ty(IntT, "none") /\ U = T
    /\ swDone /\ itDone
    /\ sw.swappable /\ it.swappable
    /\ ~it.pre_increment /\ ~it.indirection /\ ~it.is_iterator

\* C5: for a type with a swap of its own found by argument-dependent lookup
\* that is not move-assignable or not move-constructible,
\* swap_call_is_valid<T, T> and is_swappable<T, T> are true, whatever
\* swap_call_matches_std_swap<T, T> is.
C5_CustomSwapWithoutMove ==
    ( /\ swDone /\ U = T
      /\ T.base.adlSwap = "custom"
      /\ ~is_move_assignable(T) \/ ~is_move_constructible(T) )
    => (sw.valid /\ sw.swappable)

C5_Witness ==
    /\ swDone /\ U = T
    /\ T.base.adlSwap = "custom"
    /\ ~is_move_assignable(T) /\ ~is_move_constructible(T)
    /\ ~sw.matches
    /\ sw.valid /\ sw.swappable

\* C6: for a qualifying iterator type, make_iterator_range(a, b), with lvalue
\* or rvalue arguments, yields a range whose begin() is a and whose end() is b.
C6_MakeIteratorRangeYieldsRange ==
    (stmt = "make" /\ is_iterator(Ty(I, "none")) /\ ca = cb) =>
        /\ res.kind = "range"
        /\ RangeBegin(res) = a
        /\ RangeEnd(res) = b

\* C7: two ranges over the same iterator type compare equal exactly when
\* their begins are equal and their ends are equal; (a, b) and (b, a) compare
\* equal only when a = b.
C7_RangeEquality ==
    eqDone =>
        /\ eq <=> (a = RangeBegin(r2) /\ b = RangeEnd(r2))
        /\ (RangeBegin(r2) = b /\ RangeEnd(r2) = a /\ eq) => a = b

\* The ranges (a, b) and (b, a) with a # b, compared and found unequal.
C7_Witness ==
    /\ eqDone
    /\ RangeBegin(res) = a /\ RangeEnd(res) = b
    /\ RangeBegin(r2) = b /\ RangeEnd(r2) = a
    /\ a # b
    /\ ~eq

\* C8: no range over a type for which is_iterator is false (references
\* removed, as the comma operator tests it) is ever constructed.  Stated for
\* the built-in operand types, which is_iterator rejects whatever swap lookup
\* finds for them.
C8_NoRangeOverNonIterator ==
    (I.kind # "class") =>
        /\ res.kind = "range" => is_iterator(remove_reference(res.Iter))
        /\ r2.kind = "range" => is_iterator(remove_reference(r2.Iter))

\* C8 as amended: the is_iterator requirement is enforced by the comma operator
\* only; for operands of a type for which is_iterator is false the overload is
\* not used, (a, b) forms no range and is the value b.
C8_OnlyCommaChecksIsIterator ==
    (stmt = "comma" /\ ~is_iterator(Ty(I, "none"))) => res = Value(b)

\* Two lvalue operands of a class type that is_iterator rejects, after (a, b).
C8_Witness ==
    /\ stmt = "comma"
    /\ I.kind = "class" /\ ~is_iterator(Ty(I, "none"))
    /\ ca = "lvalue" /\ cb = "lvalue"
    /\ res = Value(b)

\* C9: for two positions start, end of a vector with end reachable from
\* start, for (x : start, end) runs its body once for each element at
\* start .. end-1, in order, and terminates.
C9_ForVisitsStartToEnd ==
    ( /\ stmt = "comma" /\ I = VecIter
      /\ ca = "lvalue" /\ cb = "lvalue"
      /\ a <= b
      /\ forpc \notin {"idle", "loop"} )
    => (forpc = "done" /\ visited = SubSeq(v, a + 1, b))

\* C10: (a, b) is make_iterator_range(a, b), a range from a to b, when
\* is_iterator holds for the operands' type with references removed, and is
\* the built-in comma, of value b, for every other operand type (both operands
\* of one type and value category).
C10_CommaIsMakeIteratorRange ==
    (stmt = "comma" /\ ca = cb) =>
        IF is_iterator(Ty(I, "none"))
        THEN /\ res = make_iterator_range(I, a, ca, b, cb)
             /\ res.kind = "range"
             /\ RangeBegin(res) = a /\ RangeEnd(res) = b
        ELSE res = Value(b)

\* C11: has_iterator_pre_increment<T> is true exactly when pre-increment of
\* an object of type T is well-formed and yields a reference to T; it is false
\* for a class without operator++ and for one whose operator++ returns a copy
\* or a reference to another type, and a class meeting every other
\* requirement whose operator++ returns a copy is not an iterator.
C11_PreIncrementOfObject ==
    (itDone /\ T.ref = "none") =>
        /\ it.pre_increment <=> PreIncType(T.base, "lvalue") = "self_ref"
        /\ (T.base.kind = "class" /\ T.base.preinc # "self_ref")
               => ~it.pre_increment
        /\ (T.base.kind = "class" /\ T.base.preinc = "value")
               => ~it.is_iterator

\* C11 as amended: the operation probed is ++std::declval<T>(), on an rvalue
\* unless T is an lvalue reference.  For a class type the trait is true exactly
\* when operator++ is declared to return a reference to the class; for a
\* built-in numeric or pointer type it is true only for an lvalue reference to
\* a modifiable object, so it is false for int and int*.  A class whose
\* operator++ returns a copy is not an iterator.
C11_PreIncrementOfDeclval ==
    itDone =>
        /\ T.base.kind = "class" =>
              (it.pre_increment <=> T.base.preinc = "self_ref")
        /\ T.base.kind # "class" =>
              (it.pre_increment <=> (T.ref = "lref" /\ T.base.copyA))
        /\ (T.base.kind = "class" /\ T.base.preinc = "value")
               => ~it.is_iterator

\* A class that meets every other requirement of is_iterator and whose
\* operator++ returns a copy.
C11_Witness ==
    /\ itDone
    /\ T.base.kind = "class" /\ T.base.preinc = "value"
    /\ ~is_reference(T)
    /\ is_copy_constructible(T) /\ is_copy_assignable(T) /\ is_destructible(T)
    /\ it.swappable /\ it.indirection
    /\ ~it.pre_increment
    /\ ~it.is_iterator

\* C12: has_iterator_indirection<T> is true exactly when unary * is
\* well-formed for T and its result is of reference type; it is false when
\* the operation is absent and when it returns a value or void.
C12_IndirectionReturnsReference ==
    itDone =>
        /\ T.base.kind = "class" => (it.indirection <=> T.base.deref = "ref")
        /\ T.base.kind = "ptr" => it.indirection
        /\ T.base.kind = "arith" => ~it.indirection

\* A class whose operator* returns void.
C12_Witness ==
    /\ itDone
    /\ T.base.kind = "class" /\ T.base.deref = "void"
    /\ ~it.indirection

C14_SwappableIsValid ==
    swDone =>
        /\ sw.matches => sw.valid
        /\ sw.std_valid => sw.matches
        /\ sw.swappable <=> sw.valid

\* The stand-in is selected for a type that is not move-assignable: the
\* generic disjunct fails on the move tests and the type is swappable.
C14_Witness ==
    /\ swDone
    /\ sw.matches /\ ~sw.std_valid
    /\ ~is_move_assignable(T)
    /\ sw.valid /\ sw.swappable

====
